---- MODULE Spec2Model ----
(***************************************************************************)
(* A model of transform.py: the recursive evaluator `transform`, its       *)
(* three helpers (_transform_dict, _transform_list, _transform_string)     *)
(* and the four extractors (rename, split, mask, nullable).                *)
(*                                                                         *)
(* Python values are pairs <<tag, payload>>:                               *)
(*   <<"int", i>>        an int                                            *)
(*   <<"str", chars>>    a str, as the sequence of its characters          *)
(*   <<"none", <<>>>>    None                                              *)
(*   <<"list", items>>   a list, a sequence of values                      *)
(*   <<"dict", pairs>>   a dict, the sequence of its <<key, value>> pairs  *)
(*                       in insertion order, keys pairwise distinct        *)
(*   <<"callable", <<name, arg, ...>>>>  a closure made by an extractor    *)
(* The outcome of a call is <<"ok", value>> or <<exception class, args>>.  *)
(***************************************************************************)
EXTENDS Integers, Sequences, FiniteSets

VARIABLES transformation, data, nullable, result, pc

vars == <<transformation, data, nullable, result, pc>>

----------------------------------------------------------------------------
(* Python values *)

Tag(v) == v[1]
Val(v) == v[2]

PyInt(i) == <<"int", i>>
PyStr(s) == <<"str", s>>
PyNone == <<"none", <<>>>>
PyList(items) == <<"list", items>>
PyDict(pairs) == <<"dict", pairs>>
PyCallable(name, args) == <<"callable", <<name>> \o args>>

IsDict(v) == Tag(v) = "dict"
IsList(v) == Tag(v) = "list"
IsStr(v) == Tag(v) = "str"
IsCallable(v) == Tag(v) = "callable"

(* Outcomes: a returned value, or a raised exception. *)
Ok(v) == <<"ok", v>>
Raise(class, args) == <<class, args>>
IsOk(r) == r[1] = "ok"
Returned(r) == r[2]

TransformationTypeMismatch == "TransformationTypeMismatch"
TransformationFieldMissing == "TransformationFieldMissing"
TransformationMalformed == "TransformationMalformed"
TypeError == "TypeError"
KeyError == "KeyError"
AttributeError == "AttributeError"
ValueError == "ValueError"

DictLiteral == PyStr(<<"d", "i", "c", "t">>)

----------------------------------------------------------------------------
(* dict: key in d, d[key], d.update(other) *)

DictKeys(d) == {Val(d)[i][1] : i \in 1..Len(Val(d))}
DictHas(d, key) == \E i \in 1..Len(Val(d)) : Val(d)[i][1] = key
DictGet(d, key) == Val(d)[CHOOSE i \in 1..Len(Val(d)) : Val(d)[i][1] = key][2]

DictSet(d, key, value) ==
    IF DictHas(d, key)
    THEN PyDict([i \in 1..Len(Val(d)) |->
                   IF Val(d)[i][1] = key THEN <<key, value>> ELSE Val(d)[i]])
    ELSE PyDict(Append(Val(d), <<key, value>>))

RECURSIVE UpdateFrom(_, _, _)
UpdateFrom(acc, other, i) ==
    IF i > Len(Val(other)) THEN acc
    ELSE UpdateFrom(DictSet(acc, Val(other)[i][1], Val(other)[i][2]), other, i + 1)

DictUpdate(acc, other) == UpdateFrom(acc, other, 1)

(* dict equality ignores insertion order *)
AsMap(d) == [key \in DictKeys(d) |-> DictGet(d, key)]

----------------------------------------------------------------------------
(* str: sub in s, s.split(sep) *)

StartsAt(s, sub, i) ==
    /\ i + Len(sub) - 1 <= Len(s)
    /\ \A j \in 1..Len(sub) : s[i + j - 1] = sub[j]

StrContains(s, sub) == \E i \in 1..(Len(s) + 1) : StartsAt(s, sub, i)

RECURSIVE SplitFrom(_, _, _, _)
SplitFrom(s, sep, i, piece) ==
    IF i > Len(s) THEN <<piece>>
    ELSE IF StartsAt(s, sep, i)
         THEN <<piece>> \o SplitFrom(s, sep, i + Len(sep), <<>>)
         ELSE SplitFrom(s, sep, i + 1, Append(piece, s[i]))

StrSplit(s, sep) == SplitFrom(s, sep, 1, <<>>)

----------------------------------------------------------------------------
(* x in container, container[x], for the container types the program meets *)

Contains(container, x) ==
    CASE IsDict(container) -> Ok(DictHas(container, x))
      [] IsList(container) ->
            Ok(\E i \in 1..Len(Val(container)) : Val(container)[i] = x)
      [] IsStr(container) ->
            IF IsStr(x) THEN Ok(StrContains(Val(container), Val(x)))
            ELSE Raise(TypeError, <<>>)
      [] OTHER -> Raise(TypeError, <<>>)

(* a list or a dict is unhashable, and so no dict key *)
Subscript(container, x) ==
    CASE IsDict(container) ->
            IF IsList(x) \/ IsDict(x) THEN Raise(TypeError, <<>>)
            ELSE IF DictHas(container, x) THEN Ok(DictGet(container, x))
            ELSE Raise(KeyError, <<x>>)
      [] OTHER -> Raise(TypeError, <<>>)

----------------------------------------------------------------------------
(* The evaluator *)

RECURSIVE transform(_, _, _)
RECURSIVE DictLoop(_, _, _, _, _)
RECURSIVE ListLoop(_, _, _, _, _)
RECURSIVE StepLoop(_, _, _, _, _)
RECURSIVE Call(_, _)

(* Mutant: the value-spec is evaluated on the input, not on the value *)
(* extracted for the key.                                             *)
DictLoop_ValueOnInput(transformation_, data_, nullable_, i, accumulator) ==
    IF i > Len(Val(transformation_)) THEN Ok(accumulator)
    ELSE LET k == Val(transformation_)[i][1]
             v == Val(transformation_)[i][2]
             inner == transform(k, data_, nullable_)
         IN  IF ~IsOk(inner) THEN inner
             ELSE LET outer == transform(v, data_, nullable_)
                  IN  IF ~IsOk(outer) THEN outer
                      ELSE DictLoop(transformation_, data_, nullable_, i + 1,
                                    DictUpdate(accumulator, Returned(outer)))

(* for k, v in transformation.items():
       accumulator.update(transform(v, transform(k, data, nullable)[k], nullable)) *)
DictLoop(transformation_, data_, nullable_, i, accumulator) ==
    IF i > Len(Val(transformation_)) THEN Ok(accumulator)
    ELSE LET k == Val(transformation_)[i][1]
             v == Val(transformation_)[i][2]
             inner == transform(k, data_, nullable_)
         IN  IF ~IsOk(inner) THEN inner
             ELSE LET at == Subscript(Returned(inner), k)
                  IN  IF ~IsOk(at) THEN at
                      ELSE LET outer == transform(v, Returned(at), nullable_)
                           IN  IF ~IsOk(outer) THEN outer
                               ELSE DictLoop(transformation_, data_, nullable_, i + 1,
                                             DictUpdate(accumulator, Returned(outer)))

(* Mutant: under nullable a None input is let through as an empty result. *)
_transform_dict_NoneTolerant(transformation_, data_, nullable_) ==
    IF ~IsDict(data_)
    THEN IF nullable_ /\ data_ = PyNone THEN Ok(PyDict(<<>>))
         ELSE Raise(TransformationTypeMismatch, <<transformation_, data_, DictLiteral>>)
    ELSE DictLoop(transformation_, data_, nullable_, 1, PyDict(<<>>))

_transform_dict(transformation_, data_, nullable_) ==
    IF ~IsDict(data_)
    THEN Raise(TransformationTypeMismatch, <<transformation_, data_, DictLiteral>>)
    ELSE DictLoop(transformation_, data_, nullable_, 1, PyDict(<<>>))

(* Mutant: the accumulator is merged over the item result, so the first *)
(* writer of a key wins.                                                *)
ListLoop_FirstWins(transformation_, data_, nullable_, i, accumulator) ==
    IF i > Len(Val(transformation_)) THEN Ok(accumulator)
    ELSE LET one == transform(Val(transformation_)[i], data_, nullable_)
         IN  IF ~IsOk(one) THEN one
             ELSE ListLoop(transformation_, data_, nullable_, i + 1,
                           DictUpdate(Returned(one), accumulator))

(* for extract in transformation:
       accumulator.update(transform(extract, data, nullable)) *)
ListLoop(transformation_, data_, nullable_, i, accumulator) ==
    IF i > Len(Val(transformation_)) THEN Ok(accumulator)
    ELSE LET one == transform(Val(transformation_)[i], data_, nullable_)
         IN  IF ~IsOk(one) THEN one
             ELSE ListLoop(transformation_, data_, nullable_, i + 1,
                           DictUpdate(accumulator, Returned(one)))

(* Mutant: the isinstance check of the input is left out. *)
_transform_list_Unchecked(transformation_, data_, nullable_) ==
    ListLoop(transformation_, data_, nullable_, 1, PyDict(<<>>))

_transform_list(transformation_, data_, nullable_) ==
    IF ~IsDict(data_)
    THEN Raise(TransformationTypeMismatch, <<transformation_, data_, DictLiteral>>)
    ELSE ListLoop(transformation_, data_, nullable_, 1, PyDict(<<>>))

(* Mutant: the result is keyed by the last segment, not the whole path. *)
StepLoop_LastSegmentKey(transformation_, steps, i, data_, nullable_) ==
    IF i > Len(steps) THEN Ok(PyDict(<< <<PyStr(steps[Len(steps)]), data_>> >>))
    ELSE LET step == PyStr(steps[i])
         IN  IF ~IsDict(data_)
             THEN Raise(TransformationTypeMismatch, <<step, data_, DictLiteral>>)
             ELSE IF ~DictHas(data_, step)
                  THEN IF nullable_
                       THEN Ok(PyDict(<< <<transformation_, PyNone>> >>))
                       ELSE Raise(TransformationFieldMissing, <<step, data_>>)
                  ELSE StepLoop(transformation_, steps, i + 1,
                                DictGet(data_, step), nullable_)

(* for step in steps: ... data = data[step] *)
StepLoop(transformation_, steps, i, data_, nullable_) ==
    IF i > Len(steps) THEN Ok(PyDict(<< <<transformation_, data_>> >>))
    ELSE LET step == PyStr(steps[i])
         IN  IF ~IsDict(data_)
             THEN Raise(TransformationTypeMismatch, <<step, data_, DictLiteral>>)
             ELSE IF ~DictHas(data_, step)
                  THEN IF nullable_
                       THEN Ok(PyDict(<< <<transformation_, PyNone>> >>))
                       ELSE Raise(TransformationFieldMissing, <<step, data_>>)
                  ELSE StepLoop(transformation_, steps, i + 1,
                                DictGet(data_, step), nullable_)

(* Mutant: the undotted branch raises on a missing field whatever the flag. *)
_transform_string_IgnoresNullable(transformation_, data_, nullable_) ==
    IF StrContains(Val(transformation_), <<".">>)
    THEN StepLoop(transformation_, StrSplit(Val(transformation_), <<".">>), 1,
                  data_, nullable_)
    ELSE LET present == Contains(data_, transformation_)
         IN  IF ~IsOk(present) THEN present
             ELSE IF ~Returned(present)
                  THEN Raise(TransformationFieldMissing, <<transformation_, data_>>)
                  ELSE LET at == Subscript(data_, transformation_)
                       IN  IF ~IsOk(at) THEN at
                           ELSE Ok(PyDict(<< <<transformation_, Returned(at)>> >>))

_transform_string(transformation_, data_, nullable_) ==
    IF StrContains(Val(transformation_), <<".">>)
    THEN StepLoop(transformation_, StrSplit(Val(transformation_), <<".">>), 1,
                  data_, nullable_)
    ELSE LET present == Contains(data_, transformation_)
         IN  IF ~IsOk(present) THEN present
             ELSE IF ~Returned(present)
                  THEN IF nullable_
                       THEN Ok(PyDict(<< <<transformation_, PyNone>> >>))
                       ELSE Raise(TransformationFieldMissing, <<transformation_, data_>>)
                  ELSE LET at == Subscript(data_, transformation_)
                       IN  IF ~IsOk(at) THEN at
                           ELSE Ok(PyDict(<< <<transformation_, Returned(at)>> >>))

transform(transformation_, data_, nullable_) ==
    CASE IsDict(transformation_) -> _transform_dict(transformation_, data_, nullable_)
      [] IsList(transformation_) -> _transform_list(transformation_, data_, nullable_)
      [] IsStr(transformation_) -> _transform_string(transformation_, data_, nullable_)
      [] IsCallable(transformation_) -> Call(transformation_, data_)
      [] OTHER -> Raise(TransformationMalformed, <<transformation_>>)

----------------------------------------------------------------------------
(* re.sub(pattern, replace, value) for patterns made of literal characters *)
(* and the wildcard ".", and replacements without back-references.         *)

MatchesAt(s, pattern, i) ==
    /\ i + Len(pattern) - 1 <= Len(s)
    /\ \A j \in 1..Len(pattern) : pattern[j] = "." \/ s[i + j - 1] = pattern[j]

RECURSIVE SubFrom(_, _, _, _)
SubFrom(s, pattern, replace, i) ==
    IF i > Len(s) THEN IF pattern = <<>> THEN replace ELSE <<>>
    ELSE IF pattern = <<>>
         THEN replace \o <<s[i]>> \o SubFrom(s, pattern, replace, i + 1)
         ELSE IF MatchesAt(s, pattern, i)
              THEN replace \o SubFrom(s, pattern, replace, i + Len(pattern))
              ELSE <<s[i]>> \o SubFrom(s, pattern, replace, i + 1)

ReSub(pattern, replace, value) == SubFrom(value, pattern, replace, 1)

----------------------------------------------------------------------------
(* The extractors: each returns a closure over its arguments; Call applies *)
(* the closure to the data.                                                *)

rename(old, new) == PyCallable("rename", <<old, new>>)
split(field, delimiter) == PyCallable("split", <<field, delimiter>>)
mask(field, pattern, replace) == PyCallable("mask", <<field, pattern, replace>>)
nullable_(field, flag) == PyCallable("nullable", <<field, flag>>)

(* transform(field, data)[field], with the default nullable=False *)
Lookup(field, data_) ==
    LET r == transform(field, data_, FALSE)
    IN  IF ~IsOk(r) THEN r ELSE Subscript(Returned(r), field)

(* Mutant: the old field is looked up in nullable mode. *)
_rename_Lenient(old, new, data_) ==
    LET r == transform(old, data_, TRUE)
        at == IF ~IsOk(r) THEN r ELSE Subscript(Returned(r), old)
    IN  IF ~IsOk(at) THEN at ELSE Ok(PyDict(<< <<new, Returned(at)>> >>))

_rename(old, new, data_) ==
    LET at == Lookup(old, data_)
    IN  IF ~IsOk(at) THEN at ELSE Ok(PyDict(<< <<new, Returned(at)>> >>))

(* value.split(delimiter): only a str has the method; an empty separator *)
(* is a ValueError and a separator that is neither str nor None a        *)
(* TypeError (None, the whitespace split, is not among the inputs).      *)
_split(field, delimiter, data_) ==
    LET at == Lookup(field, data_)
    IN  IF ~IsOk(at) THEN at
        ELSE IF ~IsStr(Returned(at)) THEN Raise(AttributeError, <<>>)
        ELSE CASE IsStr(delimiter) /\ Val(delimiter) = <<>> -> Raise(ValueError, <<>>)
               [] IsStr(delimiter) /\ Val(delimiter) # <<>> ->
                    Ok(PyDict(<< <<field,
                        PyList([i \in 1..Len(StrSplit(Val(Returned(at)), Val(delimiter)))
                                  |-> PyStr(StrSplit(Val(Returned(at)), Val(delimiter))[i])])>> >>))
               [] Tag(delimiter) \notin {"str", "none"} -> Raise(TypeError, <<>>)

(* re.sub raises TypeError on a value that is neither str nor bytes *)
_mask(field, pattern, replace, data_) ==
    LET at == Lookup(field, data_)
    IN  IF ~IsOk(at) THEN at
        ELSE IF ~IsStr(Returned(at)) THEN Raise(TypeError, <<>>)
        ELSE Ok(PyDict(<< <<field,
                 PyStr(ReSub(Val(pattern), Val(replace), Val(Returned(at))))>> >>))

(* Mutant: the closure keeps the default flag and drops the one given. *)
_nullable_DefaultFlag(field, flag, data_) == transform(field, data_, TRUE)

_nullable(field, flag, data_) == transform(field, data_, flag)

Call(f, data_) ==
    LET name == Val(f)[1]
    IN  CASE name = "rename" -> _rename(Val(f)[2], Val(f)[3], data_)
          [] name = "split" -> _split(Val(f)[2], Val(f)[3], data_)
          [] name = "mask" -> _mask(Val(f)[2], Val(f)[3], Val(f)[4], data_)
          [] name = "nullable" -> _nullable(Val(f)[2], Val(f)[3], data_)

----------------------------------------------------------------------------
(* Inputs: path strings, records and transformation specifications *)

MaxSegments == 3
MaxItems == 2

Segments == {<<>>, <<"a">>, <<"b">>}

RECURSIVE Join(_)
Join(segs) ==
    IF Len(segs) = 1 THEN segs[1]
    ELSE segs[1] \o <<".">> \o Join(Tail(segs))

Paths == {PyStr(Join(segs)) : segs \in UNION {[1..n -> Segments] : n \in 1..MaxSegments}}

A == PyStr(<<"a">>)
B == PyStr(<<"b">>)
AB == PyStr(<<"a", ".", "b">>)
Comma == PyStr(<<",">>)

Scalars == {PyInt(1), PyStr(<<"a", ",", "b">>), PyNone, PyList(<<A>>)}

RECURSIVE Records(_)
Records(depth) ==
    Scalars \cup {PyDict(<<>>)} \cup
    IF depth = 0 THEN {}
    ELSE {PyDict(<< <<key, x>> >>) : key \in {A, B}, x \in Records(depth - 1)}
         \cup {PyDict(<< <<A, x>>, <<B, PyInt(2)>> >>) : x \in Scalars \cup {PyDict(<<>>)}}

Extractors ==
    {rename(B, A), rename(AB, B), rename(A, A), split(A, Comma), split(A, PyStr(<<>>)),
     mask(A, PyStr(<<",">>), PyStr(<<"#">>)), mask(AB, PyStr(<<".">>), PyStr(<<"#">>))}
    \cup {nullable_(field, flag) : field \in {A, AB}, flag \in BOOLEAN}

Items == {A, B, AB, rename(B, A), nullable_(B, TRUE), nullable_(A, FALSE)}

ListSpecs == {PyList(items) : items \in UNION {[1..n -> Items] : n \in 0..MaxItems}}

EntryKeys == {A, AB}
EntryValues == {A, B, AB, PyList(<<A, B>>), PyDict(<< <<A, B>> >>)}

DictSpecs ==
    {PyDict(entries) :
        entries \in {e \in UNION {[1..n -> EntryKeys \X EntryValues] : n \in 0..MaxItems} :
                        \A i, j \in 1..Len(e) : e[i][1] = e[j][1] => i = j}}

Malformed == {PyInt(1), PyNone}

Inputs ==
    (Paths \cup ListSpecs \cup DictSpecs \cup Extractors \cup Malformed)
    \X Records(MaxSegments)

----------------------------------------------------------------------------
(* One call of the evaluator, or of an extractor's closure, on one input *)

NotCalled == <<"not called", <<>>>>

Init ==
    /\ \E input \in Inputs : transformation = input[1] /\ data = input[2]
    /\ nullable \in BOOLEAN
    /\ result = NotCalled
    /\ pc = "ready"

(* transform(transformation, data, nullable) *)
Transform ==
    /\ pc = "ready"
    /\ result' = transform(transformation, data, nullable)
    /\ pc' = "transformed"
    /\ UNCHANGED <<transformation, data, nullable>>

(* apply(extractor, args, data): the closure called directly *)
Apply ==
    /\ pc = "ready"
    /\ IsCallable(transformation)
    /\ result' = Call(transformation, data)
    /\ pc' = "applied"
    /\ UNCHANGED <<transformation, data, nullable>>

Next == Transform \/ Apply

Spec == Init /\ [][Next]_vars

----------------------------------------------------------------------------
(* The resolution of a dotted path as the specification states it: walk    *)
(* the segments left to right from the input; a cursor that is no mapping  *)
(* blocks the walk, a mapping without the segment misses it.               *)

SegmentsOf(path) == StrSplit(Val(path), <<".">>)

RECURSIVE Resolve(_, _, _)
Resolve(cursor, segs, i) ==
    IF i > Len(segs) THEN <<"value", cursor>>
    ELSE IF ~IsDict(cursor) THEN <<"blocked", PyStr(segs[i]), cursor>>
    ELSE IF ~DictHas(cursor, PyStr(segs[i])) THEN <<"missing", PyStr(segs[i]), cursor>>
    ELSE Resolve(DictGet(cursor, PyStr(segs[i])), segs, i + 1)

ResolveIn(path, value) == Resolve(value, SegmentsOf(path), 1)
Resolves(path, value) == ResolveIn(path, value)[1] = "value"
Missing(path, value) == ResolveIn(path, value)[1] = "missing"
ValueAt(path, value) == ResolveIn(path, value)[2]

One(key, value) == PyDict(<< <<key, value>> >>)
Class(outcome) == outcome[1]
Locator(outcome) == outcome[2][1]
Fails(outcome, class) == Class(outcome) = class
Transformed == pc = "transformed"
Called == pc \in {"transformed", "applied"}
IsExtractor(f, name) == IsCallable(f) /\ Val(f)[1] = name
Dots(path) == Cardinality({i \in 1..Len(Val(path)) : Val(path)[i] = "."})

----------------------------------------------------------------------------
(* C1: for every path-string p and mapping m in which every dot-segment of *)
(* p can be followed in turn, transform(p, m, nullable=False) returns the  *)
(* one-entry map {p: v}: v the value reached, the key the whole string p.  *)
C1_PathResolves ==
    (Transformed /\ IsStr(transformation) /\ IsDict(data) /\ ~nullable
       /\ Resolves(transformation, data))
    => result = Ok(One(transformation, ValueAt(transformation, data)))

C1_Witness ==
    /\ Transformed /\ IsStr(transformation) /\ IsDict(data) /\ ~nullable
    /\ Dots(transformation) = 2
    /\ Resolves(transformation, data)
    /\ IsOk(result)

(* C2 as stated: for every path-string p and mapping m such that p is not  *)
(* resolvable in m, transform(p, m, False) fails with                      *)
(* TransformationFieldMissing and transform(p, m, True) returns {p: None}. *)
C2_Unresolvable ==
    (Transformed /\ IsStr(transformation) /\ IsDict(data)
       /\ ~Resolves(transformation, data))
    => IF nullable THEN result = Ok(One(transformation, PyNone))
       ELSE Fails(result, TransformationFieldMissing)

(* C2 amended: for every path-string p and mapping m such that the walk of *)
(* p in m reaches a mapping that lacks the next segment,                   *)
(* transform(p, m, False) fails with TransformationFieldMissing and        *)
(* transform(p, m, True) returns {p: None}.                                *)
C2_MissingSegment ==
    (Transformed /\ IsStr(transformation) /\ IsDict(data)
       /\ Missing(transformation, data))
    => IF nullable THEN result = Ok(One(transformation, PyNone))
       ELSE Fails(result, TransformationFieldMissing)

C2_Witness ==
    /\ Transformed /\ IsStr(transformation) /\ IsDict(data) /\ nullable
    /\ Dots(transformation) >= 1
    /\ Missing(transformation, data)
    /\ ResolveIn(transformation, data)[3] # data
    /\ result = Ok(One(transformation, PyNone))

----------------------------------------------------------------------------
(* Claim-side helpers for composite specifications *)

Entry(spec, i) == Val(spec)[i]
Item(spec, i) == Val(spec)[i]
Size(spec) == Len(Val(spec))
IsComposite(spec) == IsDict(spec) \/ IsList(spec)

(* the outcome of entry i of a mapping spec, or of item i of a sequence *)
(* spec, evaluated alone on the same input                              *)
EntryAlone(spec, i) == transform(PyDict(<<Entry(spec, i)>>), data, nullable)
ItemAlone(spec, i) == transform(Item(spec, i), data, nullable)

(* the merge of the ok outcomes part[1..n] in order, as a map: every key *)
(* carries the value of the last part that has it                        *)
Merged(part, n) ==
    LET keys == UNION {DictKeys(Returned(part[i])) : i \in 1..n}
        last(key) == CHOOSE i \in 1..n :
                        /\ DictHas(Returned(part[i]), key)
                        /\ \A j \in (i + 1)..n : ~DictHas(Returned(part[j]), key)
    IN  [key \in keys |-> DictGet(Returned(part[last(key)]), key)]

Permutations(n) == {f \in [1..n -> 1..n] : \A i, j \in 1..n : f[i] = f[j] => i = j}

(* C3: a one-entry mapping spec {k: v} of two path-strings, on an input m  *)
(* in which k resolves to a mapping x and v resolves in x to y, returns    *)
(* exactly {v: y} for both values of nullable, so that k, when it differs  *)
(* from v, is no key of the output; a mapping spec of several entries that *)
(* returns, returns the merge of the per-entry results in declaration      *)
(* order.                                                                  *)
C3_MappingComposes ==
    (Transformed /\ IsDict(transformation)) =>
        /\ \A i \in 1..Size(transformation) :
              LET k == Entry(transformation, i)[1]
                  v == Entry(transformation, i)[2]
              IN  (/\ IsStr(k) /\ IsStr(v) /\ IsDict(data)
                   /\ Resolves(k, data)
                   /\ IsDict(ValueAt(k, data))
                   /\ Resolves(v, ValueAt(k, data)))
                  => /\ EntryAlone(transformation, i)
                          = Ok(One(v, ValueAt(v, ValueAt(k, data))))
                     /\ Size(transformation) = 1
                          => /\ result = Ok(One(v, ValueAt(v, ValueAt(k, data))))
                             /\ k # v => ~DictHas(Returned(result), k)
        /\ IsOk(result) =>
              /\ \A i \in 1..Size(transformation) : IsOk(EntryAlone(transformation, i))
              /\ AsMap(Returned(result))
                    = Merged([i \in 1..Size(transformation) |-> EntryAlone(transformation, i)],
                             Size(transformation))

C3_Witness ==
    /\ Transformed /\ IsDict(transformation) /\ IsDict(data)
    /\ Size(transformation) = 2
    /\ \A i \in 1..2 :
          LET k == Entry(transformation, i)[1]
              v == Entry(transformation, i)[2]
          IN  /\ IsStr(k) /\ IsStr(v)
              /\ Resolves(k, data) /\ IsDict(ValueAt(k, data))
              /\ Resolves(v, ValueAt(k, data))
    /\ \E i \in 1..2 : Dots(Entry(transformation, i)[1]) = 1
    /\ IsOk(result)
    /\ Cardinality(DictKeys(Returned(result))) = 2

(* C4: a sequence spec evaluates every item against the same input and     *)
(* merges the item results in declaration order: when the items produce    *)
(* pairwise distinct destination keys every permutation of the items gives *)
(* the same result map, and a key that two items produce carries the value *)
(* of the later item.                                                      *)
C4_SequenceMerge ==
    (Transformed /\ IsList(transformation) /\ IsDict(data)) =>
        LET n == Size(transformation)
            alone == [i \in 1..n |-> ItemAlone(transformation, i)]
        IN  /\ IsOk(result) <=> \A i \in 1..n : IsOk(alone[i])
            /\ IsOk(result) =>
                  /\ AsMap(Returned(result)) = Merged(alone, n)
                  /\ (\A i, j \in 1..n :
                         i # j => DictKeys(Returned(alone[i])) \cap DictKeys(Returned(alone[j])) = {})
                     => \A f \in Permutations(n) :
                           LET permuted == transform(PyList([i \in 1..n |-> Item(transformation, f[i])]),
                                                     data, nullable)
                           IN  /\ IsOk(permuted)
                               /\ AsMap(Returned(permuted)) = AsMap(Returned(result))

C4_Witness ==
    /\ Transformed /\ IsDict(data)
    /\ transformation = PyList(<<A, rename(B, A)>>)
    /\ IsOk(result)
    /\ DictHas(data, A) /\ DictHas(data, B) /\ DictGet(data, A) # DictGet(data, B)
    /\ AsMap(Returned(result)) = AsMap(One(A, DictGet(data, B)))

C4_WitnessDistinct ==
    /\ Transformed /\ IsDict(data)
    /\ transformation = PyList(<<B, A>>)
    /\ IsOk(result)
    /\ Cardinality(DictKeys(Returned(result))) = 2

(* C5: a mapping spec or a sequence spec on an input that is no mapping    *)
(* fails with TransformationTypeMismatch, for both values of nullable and  *)
(* whatever the spec holds: nothing, or extractors only.                   *)
C5_NonMappingInput ==
    (Transformed /\ IsComposite(transformation) /\ ~IsDict(data))
    => Fails(result, TransformationTypeMismatch)

C5_Witness ==
    /\ Transformed /\ IsList(transformation) /\ ~IsDict(data) /\ nullable
    /\ Size(transformation) >= 1
    /\ \A i \in 1..Size(transformation) : IsCallable(Item(transformation, i))
    /\ Fails(result, TransformationTypeMismatch)

C5_WitnessEmpty ==
    /\ Transformed /\ IsDict(transformation) /\ Size(transformation) = 0
    /\ ~IsDict(data) /\ nullable
    /\ Fails(result, TransformationTypeMismatch)

(* C6: the override wins over the ambient flag: transform(nullable(f, g),  *)
(* d, a) has the outcome of transform(f, d, g) for every ambient a, so on  *)
(* a mapping that lacks f it fails with TransformationFieldMissing when g  *)
(* is False and returns {f: None} when g is True; the same holds of an     *)
(* override that is an item of a sequence spec.                            *)
C6_OverrideWins ==
    /\ (Called /\ IsExtractor(transformation, "nullable")) =>
          LET f == Val(transformation)[2]
              g == Val(transformation)[3]
          IN  /\ result = transform(f, data, g)
              /\ (IsStr(f) /\ IsDict(data) /\ Missing(f, data)) =>
                    IF g THEN result = Ok(One(f, PyNone))
                    ELSE Fails(result, TransformationFieldMissing)
    /\ (Transformed /\ IsList(transformation) /\ IsDict(data)) =>
          \A i \in 1..Size(transformation) :
             (/\ IsExtractor(Item(transformation, i), "nullable")
              /\ \A j \in 1..(i - 1) : IsOk(ItemAlone(transformation, j)))
             => LET f == Val(Item(transformation, i))[2]
                    g == Val(Item(transformation, i))[3]
                    own == transform(f, data, g)
                IN  /\ ~IsOk(own) => result = own
                    /\ (IsOk(own) /\ IsOk(result)) =>
                          \A key \in DictKeys(Returned(own)) :
                             (\A j \in (i + 1)..Size(transformation) :
                                 ~DictHas(Returned(ItemAlone(transformation, j)), key))
                             => DictGet(Returned(result), key) = DictGet(Returned(own), key)
                    /\ (IsStr(f) /\ Missing(f, data) /\ ~g) =>
                          Fails(result, TransformationFieldMissing)

C6_Witness ==
    /\ Transformed /\ nullable
    /\ transformation = nullable_(A, FALSE)
    /\ data = PyDict(<<>>)
    /\ Fails(result, TransformationFieldMissing)

C6_WitnessNested ==
    /\ Transformed /\ ~nullable /\ IsList(transformation) /\ IsDict(data)
    /\ Size(transformation) = 2
    /\ Item(transformation, 2) = nullable_(B, TRUE)
    /\ Missing(B, data)
    /\ IsOk(result) /\ DictGet(Returned(result), B) = PyNone

(* C7: rename(old, new) resolves old non-nullably and re-keys it: on an    *)
(* input in which old resolves to v it returns exactly {new: v}, without   *)
(* the key old when old differs from new, for both ambient flags; on a     *)
(* mapping from which old is missing it fails with                         *)
(* TransformationFieldMissing whatever the ambient flag, also as an item   *)
(* of a sequence spec evaluated with nullable=True.                        *)
C7_Rename ==
    /\ (Called /\ IsExtractor(transformation, "rename") /\ IsDict(data)) =>
          LET old == Val(transformation)[2]
              new == Val(transformation)[3]
          IN  /\ Resolves(old, data) =>
                    /\ result = Ok(One(new, ValueAt(old, data)))
                    /\ old # new => ~DictHas(Returned(result), old)
              /\ Missing(old, data) => Fails(result, TransformationFieldMissing)
    /\ (Transformed /\ IsList(transformation) /\ IsDict(data)) =>
          \A i \in 1..Size(transformation) :
             (/\ IsExtractor(Item(transformation, i), "rename")
              /\ Missing(Val(Item(transformation, i))[2], data)
              /\ \A j \in 1..(i - 1) : IsOk(ItemAlone(transformation, j)))
             => Fails(result, TransformationFieldMissing)

C7_Witness ==
    /\ Transformed /\ nullable /\ IsDict(data)
    /\ transformation = rename(AB, B)
    /\ Resolves(AB, data)
    /\ result = Ok(One(B, ValueAt(AB, data)))

C7_WitnessMissing ==
    /\ Transformed /\ nullable /\ IsDict(data)
    /\ transformation = PyList(<<A, rename(B, A)>>)
    /\ Resolves(A, data) /\ Missing(B, data)
    /\ Fails(result, TransformationFieldMissing)

(* C8: split(field, delimiter) and mask(field, pattern, replacement) on an *)
(* input in which field resolves to a value that is no string fail with    *)
(* TransformationTypeMismatch naming the field, and every failure of       *)
(* either is a TransformationTypeMismatch or a TransformationFieldMissing  *)
(* (stated of mapping inputs).                                             *)
C8_BuiltinsFailTyped ==
    (/\ Called /\ IsDict(data)
     /\ IsExtractor(transformation, "split") \/ IsExtractor(transformation, "mask")) =>
        LET field == Val(transformation)[2]
        IN  /\ (Resolves(field, data) /\ ~IsStr(ValueAt(field, data))) =>
                  /\ Fails(result, TransformationTypeMismatch)
                  /\ Locator(result) = field
            /\ ~IsOk(result) =>
                  Class(result) \in {TransformationTypeMismatch, TransformationFieldMissing}

(* C9: a path without '.' behaves as the segment walk run with one         *)
(* segment, and a dotted path follows the same rule at every segment, for  *)
(* every input value and both values of nullable: a cursor that is no      *)
(* mapping fails with TransformationTypeMismatch naming the segment; a     *)
(* mapping that lacks the segment gives {path: None} under nullable and    *)
(* TransformationFieldMissing naming the segment otherwise; else the walk  *)
(* advances, and ends with {path: value}.                                  *)
C9_OneRuleForEverySegment ==
    (Transformed /\ IsStr(transformation)) =>
        LET walk == ResolveIn(transformation, data)
        IN  CASE walk[1] = "blocked" ->
                    /\ Fails(result, TransformationTypeMismatch)
                    /\ Locator(result) = walk[2]
              [] walk[1] = "missing" ->
                    IF nullable THEN result = Ok(One(transformation, PyNone))
                    ELSE /\ Fails(result, TransformationFieldMissing)
                         /\ Locator(result) = walk[2]
              [] walk[1] = "value" -> result = Ok(One(transformation, walk[2]))

(* C10: in a mapping spec entry (k, v) whose value-spec v is a mapping or  *)
(* a sequence spec, the value extracted for k must be a mapping: when it   *)
(* is a scalar, a sequence, or the None that nullable mode gives for a k   *)
(* missing from the input, the call fails with TransformationTypeMismatch, *)
(* for both values of nullable.                                            *)
C10_CompositeValueNeedsMapping ==
    (Transformed /\ IsDict(transformation) /\ IsDict(data)) =>
        \A i \in 1..Size(transformation) :
           LET k == Entry(transformation, i)[1]
               v == Entry(transformation, i)[2]
           IN  (/\ IsStr(k) /\ IsComposite(v)
                /\ \/ Resolves(k, data) /\ ~IsDict(ValueAt(k, data))
                   \/ Missing(k, data) /\ nullable
                /\ \A j \in 1..(i - 1) : IsOk(EntryAlone(transformation, j)))
               => Fails(result, TransformationTypeMismatch)

C10_Witness ==
    /\ Transformed /\ nullable /\ IsDict(transformation) /\ IsDict(data)
    /\ Size(transformation) = 1
    /\ IsComposite(Entry(transformation, 1)[2])
    /\ Missing(Entry(transformation, 1)[1], data)
    /\ Fails(result, TransformationTypeMismatch)

====
